---- MODULE Spec2Model ----
(***************************************************************************)
(* A model of scripts/compare_xls2csv.py: the reference path that turns a  *)
(* decoded sheet into CSV text (format_cell, quote_field,                  *)
(* sheet_max_cols, sheet_to_csv_string), the normaliser (normalize_csv)    *)
(* and the comparison loop of main().                                      *)
(*                                                                         *)
(* A Python str is a sequence of one-character strings.  The value None    *)
(* is the one-element sequence <<"None">>, whose element is no character.  *)
(***************************************************************************)
EXTENDS Integers, Sequences, FiniteSets, TLC

VARIABLES
    phase,          \* which function of a pure-function harness has been applied
    text,           \* normalize_csv: the raw CSV text
    delimiter,      \* the delimiter handed to quote_field / normalize_csv
    normalized,     \* normalize_csv(text, delimiter)
    renormalized,   \* normalize_csv(normalized, delimiter)
    value,          \* quote_field: the field value
    quoted,         \* quote_field(value, delimiter)
    book,           \* format_cell: the workbook (datemode, xf_list, format_map)
    cell,           \* format_cell: the cell (ctype, value, xf_index)
    date_format,    \* --dateformat
    float_format,   \* --floatformat
    formatted,      \* format_cell(book, sheet, 0, 0, date_format, float_format)
    sheet,          \* sheet_max_cols / sheet_to_csv_string: the sheet
    max_cols,       \* sheet_max_cols(sheet)
    csv,            \* sheet_to_csv_string(book, sheet, date_format, float_format, delimiter)
    other,          \* a second sheet, converted and normalised like `sheet`
    other_normalized,
    args,           \* main: args.xls_dir + args.xls
    xls_paths,      \* main: collect_xls_files(args)
    pc,             \* main: the statement main() is at
    ok,             \* main: the flag `ok`
    path_i,         \* main: 0-based position of `path` in xls_paths
    nsheets,        \* main: len(book.sheets()) of the open workbook
    idx,            \* main: the inner loop's `idx`
    raised,         \* main: the call whose exception left main(), or "none"
    exit_code,      \* the exit status of the process, -1 while it runs
    log             \* main: the calls made and the lines printed, in order

vars == <<phase, text, delimiter, normalized, renormalized, value, quoted,
          book, cell, date_format, float_format, formatted, sheet, max_cols, csv,
          other, other_normalized,
          args, xls_paths, pc, ok, path_i, nsheets, idx, raised, exit_code, log>>

normVars == <<text, normalized, renormalized>>
quoteVars == <<value, quoted>>
cellVars == <<book, cell, date_format, float_format, formatted>>
sheetVars == <<sheet, max_cols, csv>>
otherVars == <<other, other_normalized>>
mainVars == <<args, xls_paths, pc, ok, path_i, nsheets, idx, raised, exit_code, log>>

-----------------------------------------------------------------------------
(* Bounds *)

MaxTextLen == 6
MaxFieldLen == 3
MaxRows == 2
MaxCols == 2
MaxCmpRows == 2
MaxCmpCols == 1
MaxArgs == 2
MaxSheets == 2

-----------------------------------------------------------------------------
(* Characters and strings *)

QUOTE == "\""
LF == "\n"
CR == "\r"
COMMA == ","

None == <<"None">>

\* the variables of a harness that is not the one running
MainIdle ==
    /\ args = <<>> /\ xls_paths = <<>> /\ pc = "idle" /\ ok = TRUE /\ path_i = 0
    /\ nsheets = 0 /\ idx = 0 /\ raised = "none" /\ exit_code = -1 /\ log = <<>>
QuoteIdle == value = <<>> /\ quoted = <<>>
NormIdle == text = <<>> /\ normalized = <<>> /\ renormalized = <<>>

Chars == {"a", COMMA, QUOTE, LF, CR}
Delimiters == {COMMA, ";"}

RECURSIVE SeqsUpTo(_, _)
SeqsUpTo(S, n) ==
    IF n = 0 THEN {<<>>}
    ELSE LET shorter == SeqsUpTo(S, n - 1)
         IN  shorter \cup {Append(s, c) : s \in {t \in shorter : Len(t) = n - 1}, c \in S}

Contains(s, ch) == \E i \in 1..Len(s) : s[i] = ch

RECURSIVE Join(_, _)
Join(parts, sep) ==
    IF parts = <<>> THEN <<>>
    ELSE IF Len(parts) = 1 THEN parts[1]
    ELSE parts[1] \o <<sep>> \o Join(Tail(parts), sep)

\* str.split(sep) for a one-character separator: always at least one piece
RECURSIVE Split(_, _)
Split(s, sep) ==
    IF ~Contains(s, sep) THEN <<s>>
    ELSE LET i == CHOOSE k \in 1..Len(s) : s[k] = sep /\ \A j \in 1..(k - 1) : s[j] # sep
         IN  <<SubSeq(s, 1, i - 1)>> \o Split(SubSeq(s, i + 1, Len(s)), sep)

\* text.replace("\r\n", "\n"): left to right, non-overlapping
RECURSIVE ReplaceCRLF(_)
ReplaceCRLF(s) ==
    IF s = <<>> THEN <<>>
    ELSE IF Len(s) >= 2 /\ s[1] = CR /\ s[2] = LF
         THEN <<LF>> \o ReplaceCRLF(SubSeq(s, 3, Len(s)))
         ELSE <<s[1]>> \o ReplaceCRLF(Tail(s))

\* text.replace("\r", "\n")
ReplaceCR(s) == [i \in 1..Len(s) |-> IF s[i] = CR THEN LF ELSE s[i]]

\* value.replace('"', '""')
RECURSIVE DoubleQuotes(_)
DoubleQuotes(s) ==
    IF s = <<>> THEN <<>>
    ELSE (IF s[1] = QUOTE THEN <<QUOTE, QUOTE>> ELSE <<s[1]>>) \o DoubleQuotes(Tail(s))

-----------------------------------------------------------------------------
(* quote_field, lines 80-86 *)

quote_field_newline_unquoted(v, delim) ==
    LET s == IF v = None THEN <<>> ELSE v
        needs_quote == Contains(s, delim) \/ Contains(s, QUOTE)
    IN  IF ~needs_quote THEN s
        ELSE <<QUOTE>> \o DoubleQuotes(s) \o <<QUOTE>>

quote_field(v, delim) ==
    LET s == IF v = None THEN <<>> ELSE v
        needs_quote == \/ Contains(s, delim)
                       \/ Contains(s, QUOTE)
                       \/ Contains(s, CR)
                       \/ Contains(s, LF)
    IN  IF ~needs_quote THEN s
        ELSE <<QUOTE>> \o DoubleQuotes(s) \o <<QUOTE>>

-----------------------------------------------------------------------------
(* is_empty_csv_row and normalize_csv, lines 88-104 *)

is_empty_csv_row(line, delim) ==
    \A i \in 1..Len(line) : line[i] \in {delim, QUOTE}

\* while lines and lines[-1] == "": lines.pop()
RECURSIVE PopEmpty(_)
PopEmpty(lines) ==
    IF lines # <<>> /\ lines[Len(lines)] = <<>>
    THEN PopEmpty(SubSeq(lines, 1, Len(lines) - 1))
    ELSE lines

\* while lines and is_empty_csv_row(lines[-1], delimiter): lines.pop()
RECURSIVE PopBlank(_, _)
PopBlank(lines, delim) ==
    IF lines # <<>> /\ is_empty_csv_row(lines[Len(lines)], delim)
    THEN PopBlank(SubSeq(lines, 1, Len(lines) - 1), delim)
    ELSE lines

\* the second loop written as an `if`: pops at most one blank line
PopBlankOnce(lines, delim) ==
    IF lines # <<>> /\ is_empty_csv_row(lines[Len(lines)], delim)
    THEN SubSeq(lines, 1, Len(lines) - 1)
    ELSE lines

normalize_csv_pop_once(t, delim) ==
    LET unified == ReplaceCR(ReplaceCRLF(t))
        lines == PopBlankOnce(PopEmpty(Split(unified, LF)), delim)
    IN  IF lines = <<>> THEN <<>> ELSE Join(lines, LF) \o <<LF>>

\* only "\r\n" is unified; a lone "\r" is kept
normalize_csv_keep_cr(t, delim) ==
    LET unified == ReplaceCRLF(t)
        lines == PopBlank(PopEmpty(Split(unified, LF)), delim)
    IN  IF lines = <<>> THEN <<>> ELSE Join(lines, LF) \o <<LF>>

normalize_csv(t, delim) ==
    LET unified == ReplaceCR(ReplaceCRLF(t))
        lines == PopBlank(PopEmpty(Split(unified, LF)), delim)
    IN  IF lines = <<>> THEN <<>> ELSE Join(lines, LF) \o <<LF>>

-----------------------------------------------------------------------------
(* The decoded workbook the script reads through xlrd.                     *)
(* A book is [datemode, xf_list, format_map]: xf_list a sequence of        *)
(* [format_key], format_map a set of <<format_key, format_str>> pairs with *)
(* at most one pair for a key.  A cell is [ctype, str, num, xf_index]:     *)
(* its value is str for a Text cell and num for every other type.  A sheet *)
(* is [nrows, ncols, rows], rows[rowx + 1] the cells of row rowx, so that  *)
(* row_len(rowx) is the length of that row.                                *)

XL_CELL_EMPTY == 0
XL_CELL_TEXT == 1
XL_CELL_NUMBER == 2
XL_CELL_DATE == 3
XL_CELL_BOOLEAN == 4
XL_CELL_ERROR == 5
XL_CELL_BLANK == 6

BUILTIN_DATE_FORMATS == {14, 15, 16, 17, 18, 19, 20, 21, 22, 27, 30, 36, 50, 57, 58}

row_len(sh, rowx) == Len(sh.rows[rowx + 1])
cell_type(sh, rowx, colx) == sh.rows[rowx + 1][colx + 1].ctype
cell_value(sh, rowx, colx) ==
    LET c == sh.rows[rowx + 1][colx + 1]
    IN  IF c.ctype = XL_CELL_TEXT THEN c.str ELSE c.num
cell_xf_index(sh, rowx, colx) == sh.rows[rowx + 1][colx + 1].xf_index

\* book.format_map.get(fmt_key): the format string, None when the key is absent
format_map_get(bk, fmt_key) ==
    IF \E p \in bk.format_map : p[1] = fmt_key
    THEN (CHOOSE p \in bk.format_map : p[1] = fmt_key)[2]
    ELSE None

\* xlrd.formatting.is_date_format_string: a date/time token character
\* outside a quoted literal section
DateTokens == {"y", "m", "d", "h", "s"}

RECURSIVE ScanDateToken(_, _)
ScanDateToken(fs, inQuote) ==
    IF fs = <<>> THEN FALSE
    ELSE IF fs[1] = QUOTE THEN ScanDateToken(Tail(fs), ~inQuote)
    ELSE IF ~inQuote /\ fs[1] \in DateTokens THEN TRUE
    ELSE ScanDateToken(Tail(fs), inQuote)

is_date_format_string(bk, fs) == ScanDateToken(fs, FALSE)

\* consults the format table before the built-in set
is_date_cell_table_first(bk, xf_index) ==
    IF xf_index < 0 \/ xf_index >= Len(bk.xf_list) THEN FALSE
    ELSE LET fmt_key == bk.xf_list[xf_index + 1].format_key
             fmt == format_map_get(bk, fmt_key)
         IN  IF fmt = None \/ fmt = <<>> THEN FALSE
             ELSE IF fmt_key \in BUILTIN_DATE_FORMATS THEN TRUE
             ELSE is_date_format_string(bk, fmt)

\* lines 20-29
is_date_cell(bk, xf_index) ==
    IF xf_index < 0 \/ xf_index >= Len(bk.xf_list) THEN FALSE
    ELSE LET fmt_key == bk.xf_list[xf_index + 1].format_key
             fmt == format_map_get(bk, fmt_key)
         IN  IF fmt_key \in BUILTIN_DATE_FORMATS THEN TRUE
             ELSE IF fmt = None \/ fmt = <<>> THEN FALSE
             ELSE is_date_format_string(bk, fmt)

-----------------------------------------------------------------------------
(* Numbers and dates as text.  Cell numbers are whole and non-negative.    *)

DigitChar(d) == <<"0", "1", "2", "3", "4", "5", "6", "7", "8", "9">>[d + 1]

RECURSIVE Digits(_)
Digits(n) == IF n < 10 THEN <<DigitChar(n)>> ELSE Digits(n \div 10) \o <<DigitChar(n % 10)>>

RECURSIVE ZeroPad(_, _)
ZeroPad(s, width) == IF Len(s) >= width THEN s ELSE ZeroPad(<<"0">> \o s, width)

IsLeap(y) == (y % 4 = 0 /\ y % 100 # 0) \/ y % 400 = 0
DaysInYear(y) == IF IsLeap(y) THEN 366 ELSE 365
DaysInMonth(y, m) ==
    IF m = 2 THEN (IF IsLeap(y) THEN 29 ELSE 28)
    ELSE IF m \in {4, 6, 9, 11} THEN 30 ELSE 31

RECURSIVE MonthDay(_, _, _)
MonthDay(y, m, n) ==
    IF n >= DaysInMonth(y, m) THEN MonthDay(y, m + 1, n - DaysInMonth(y, m))
    ELSE [year |-> y, month |-> m, day |-> n + 1]

\* 1 January of year y plus n days
RECURSIVE AddDays(_, _)
AddDays(y, n) ==
    IF n >= DaysInYear(y) THEN AddDays(y + 1, n - DaysInYear(y))
    ELSE MonthDay(y, 1, n)

\* xlrd.xldate_as_datetime for a whole serial: day 0 is 1899-12-30 with
\* datemode 0 and 1904-01-01 with datemode 1
xldate_as_datetime(xldate, datemode) ==
    IF datemode = 0 THEN AddDays(1899, 363 + xldate) ELSE AddDays(1904, xldate)

DEFAULT_DATE_FORMAT ==
    <<"%", "Y", "-", "%", "m", "-", "%", "d", " ", "%", "H", ":", "%", "M", ":", "%", "S">>

\* datetime.strftime over the directives %Y %m %d %H %M %S (midnight)
RECURSIVE strftime(_, _)
strftime(dt, pattern) ==
    IF pattern = <<>> THEN <<>>
    ELSE IF pattern[1] = "%" /\ Len(pattern) >= 2
    THEN (CASE pattern[2] = "Y" -> ZeroPad(Digits(dt.year), 4)
            [] pattern[2] = "m" -> ZeroPad(Digits(dt.month), 2)
            [] pattern[2] = "d" -> ZeroPad(Digits(dt.day), 2)
            [] pattern[2] \in {"H", "M", "S"} -> <<"0", "0">>
            [] OTHER -> <<pattern[1], pattern[2]>>)
         \o strftime(dt, SubSeq(pattern, 3, Len(pattern)))
    ELSE <<pattern[1]>> \o strftime(dt, Tail(pattern))

\* lines 32-39: float_format % val for "%.15g", repr(val) without a format.
\* A cell number is a float, so float(value) does not raise.
format_float(v, floatfmt) ==
    IF floatfmt # <<>> THEN Digits(v) ELSE Digits(v) \o <<".", "0">>

\* lines 42-55.  A whole non-negative serial is neither NaN nor infinite and
\* within the range of dates, so the branches returning "" are not taken.
format_date(v, datemode, datefmt) ==
    LET dt == xldate_as_datetime(v, datemode)
    IN  IF datefmt # <<>> THEN strftime(dt, datefmt)
        ELSE strftime(dt, DEFAULT_DATE_FORMAT)

\* xlrd.error_text_from_code.get(value, "#ERROR")
error_text(code) ==
    CASE code = 0 -> <<"#", "N", "U", "L", "L", "!">>
      [] code = 7 -> <<"#", "D", "I", "V", "/", "0", "!">>
      [] code = 15 -> <<"#", "V", "A", "L", "U", "E", "!">>
      [] code = 23 -> <<"#", "R", "E", "F", "!">>
      [] code = 29 -> <<"#", "N", "A", "M", "E", "?">>
      [] code = 36 -> <<"#", "N", "U", "M", "!">>
      [] code = 42 -> <<"#", "N", "/", "A">>
      [] OTHER -> <<"#", "E", "R", "R", "O", "R">>

\* lines 58-77
format_cell(bk, sh, rowx, colx, datefmt, floatfmt) ==
    LET ctype == cell_type(sh, rowx, colx)
        v == cell_value(sh, rowx, colx)
    IN  IF ctype = XL_CELL_TEXT THEN (IF v = None THEN <<>> ELSE v)
        ELSE IF ctype = XL_CELL_DATE THEN format_date(v, bk.datemode, datefmt)
        ELSE IF ctype = XL_CELL_NUMBER
        THEN (IF is_date_cell(bk, cell_xf_index(sh, rowx, colx))
              THEN format_date(v, bk.datemode, datefmt)
              ELSE format_float(v, floatfmt))
        ELSE IF ctype = XL_CELL_BOOLEAN
        THEN (IF v # 0 THEN <<"T", "R", "U", "E">> ELSE <<"F", "A", "L", "S", "E">>)
        ELSE IF ctype = XL_CELL_ERROR THEN error_text(v)
        ELSE IF ctype \in {XL_CELL_EMPTY, XL_CELL_BLANK} THEN <<>>
        ELSE Digits(v)

-----------------------------------------------------------------------------
(* Cells, books and the inputs of the format_cell harness *)

Cell(ctype, str, num, xf) == [ctype |-> ctype, str |-> str, num |-> num, xf_index |-> xf]
EmptyCell == Cell(XL_CELL_EMPTY, <<>>, 0, 0)
BlankCell == Cell(XL_CELL_BLANK, <<>>, 0, 0)
TextCell(s) == Cell(XL_CELL_TEXT, s, 0, 0)

OneCellSheet(c) == [nrows |-> 1, ncols |-> 1, rows |-> <<<<c>>>>]

FormatKeys == BUILTIN_DATE_FORMATS \cup {0, 164}
FormatStrs == {<<>>, <<"0">>, <<"y", "y">>, <<QUOTE, "d", QUOTE, "0">>}
Serials == {1, 41000}

HarnessBooks ==
    UNION {{[datemode |-> dm, xf_list |-> <<[format_key |-> k]>>, format_map |-> fm] :
                dm \in {0, 1},
                fm \in {{}} \cup {{<<kk, fs>>} : kk \in {k, 164}, fs \in FormatStrs}} :
           k \in FormatKeys}

HarnessCells ==
    {Cell(XL_CELL_NUMBER, <<>>, n, xf) : n \in Serials, xf \in {-1, 0, 1}}
    \cup {Cell(XL_CELL_DATE, <<>>, n, 0) : n \in Serials}
    \cup {Cell(XL_CELL_BOOLEAN, <<>>, n, 0) : n \in {0, 1}}
    \cup {Cell(XL_CELL_ERROR, <<>>, n, 0) : n \in {7, 99}}
    \cup {TextCell(<<"a">>), TextCell(None), EmptyCell, BlankCell}

DateFormats == {<<>>, <<"%", "Y", "-", "%", "m", "-", "%", "d">>}
PERCENT_15G == <<"%", ".", "1", "5", "g">>
FloatFormats == {<<>>, PERCENT_15G}

DefaultBook == [datemode |-> 0, xf_list |-> <<[format_key |-> 0]>>, format_map |-> {}]

CellIdle ==
    /\ book = DefaultBook
    /\ cell = EmptyCell
    /\ date_format = <<>>
    /\ float_format = <<>>
    /\ formatted = <<>>

-----------------------------------------------------------------------------
(* sheet_max_cols, lines 107-120 *)

IsContent(ctype) == ctype \notin {XL_CELL_EMPTY, XL_CELL_BLANK}

\* for colx in range(row_len): if the cell has content: row_max = colx + 1
RECURSIVE row_max_loop(_, _, _, _)
row_max_loop(sh, rowx, colx, row_max) ==
    IF colx >= row_len(sh, rowx) THEN row_max
    ELSE row_max_loop(sh, rowx, colx + 1,
                      IF IsContent(cell_type(sh, rowx, colx)) THEN colx + 1 ELSE row_max)

\* for rowx in range(sheet.nrows): if row_max > max_cols: max_cols = row_max
RECURSIVE max_cols_loop(_, _, _)
max_cols_loop(sh, rowx, acc) ==
    IF rowx >= sh.nrows THEN acc
    ELSE LET row_max == row_max_loop(sh, rowx, 0, 0)
         IN  max_cols_loop(sh, rowx + 1, IF row_max > acc THEN row_max ELSE acc)

\* the last row's width wins: max_cols = row_max without the comparison
RECURSIVE last_row_loop(_, _, _)
last_row_loop(sh, rowx, acc) ==
    IF rowx >= sh.nrows THEN acc
    ELSE last_row_loop(sh, rowx + 1, row_max_loop(sh, rowx, 0, 0))

sheet_max_cols_last_row(sh) ==
    LET m == last_row_loop(sh, 0, 0)
    IN  IF m = 0 THEN sh.ncols ELSE m

sheet_max_cols(sh) ==
    LET m == max_cols_loop(sh, 0, 0)
    IN  IF m = 0 THEN sh.ncols ELSE m

-----------------------------------------------------------------------------
(* sheet_to_csv_string, lines 123-136 *)

\* the fields of one row: for colx in range(width)
row_fields(bk, sh, rowx, width, datefmt, floatfmt, delim) ==
    [c \in 1..width |->
        LET colx == c - 1
            field == IF colx >= row_len(sh, rowx) THEN <<>>
                     ELSE format_cell(bk, sh, rowx, colx, datefmt, floatfmt)
        IN  quote_field(field, delim)]

\* for rowx in range(sheet.nrows): buf.write(delimiter.join(fields) + "\n")
RECURSIVE csv_rows(_, _, _, _, _, _, _)
csv_rows(bk, sh, rowx, width, datefmt, floatfmt, delim) ==
    IF rowx >= sh.nrows THEN <<>>
    ELSE Join(row_fields(bk, sh, rowx, width, datefmt, floatfmt, delim), delim) \o <<LF>>
         \o csv_rows(bk, sh, rowx + 1, width, datefmt, floatfmt, delim)

\* every row written at its own declared length: range(row_len)
RECURSIVE csv_rows_ragged(_, _, _, _, _, _)
csv_rows_ragged(bk, sh, rowx, datefmt, floatfmt, delim) ==
    IF rowx >= sh.nrows THEN <<>>
    ELSE Join(row_fields(bk, sh, rowx, row_len(sh, rowx), datefmt, floatfmt, delim), delim)
         \o <<LF>> \o csv_rows_ragged(bk, sh, rowx + 1, datefmt, floatfmt, delim)

sheet_to_csv_string_ragged(bk, sh, datefmt, floatfmt, delim) ==
    csv_rows_ragged(bk, sh, 0, datefmt, floatfmt, delim)

sheet_to_csv_string(bk, sh, datefmt, floatfmt, delim) ==
    csv_rows(bk, sh, 0, sheet_max_cols(sh), datefmt, floatfmt, delim)

-----------------------------------------------------------------------------
(* Harness for sheet_max_cols and sheet_to_csv_string.  Rows may be ragged *)
(* (row_len differs between rows); the declared width sheet.ncols is at    *)
(* least the longest row.                                                  *)

SheetCells == {EmptyCell, BlankCell, TextCell(<<"a">>), TextCell(<<COMMA, QUOTE, LF>>)}

Longest(rs) ==
    IF rs = <<>> THEN 0
    ELSE LET lens == {Len(rs[i]) : i \in 1..Len(rs)}
         IN  CHOOSE n \in lens : \A k \in lens : k <= n

\* sh is a sheet of at most maxRows rows of at most maxCols cells
IsSheet(sh, cells, maxRows, maxCols) ==
    \E n \in 0..maxRows :
        \E rs \in [1..n -> SeqsUpTo(cells, maxCols)] :
            \E nc \in {Longest(rs), maxCols} :
                sh = [nrows |-> n, ncols |-> nc, rows |-> rs]

\* main() calls sheet_to_csv_string with these (lines 197-198, 220)
DEFAULT_FLOAT_FORMAT == PERCENT_15G

EmptySheet == [nrows |-> 0, ncols |-> 0, rows |-> <<>>]

SheetIdle == sheet = EmptySheet /\ max_cols = 0 /\ csv = <<>>
OtherIdle == other = EmptySheet /\ other_normalized = <<>>

InitSheet ==
    /\ phase = "input"
    /\ IsSheet(sheet, SheetCells, MaxRows, MaxCols)
    /\ max_cols = 0
    /\ csv = <<>>
    /\ book = DefaultBook
    /\ cell = EmptyCell
    /\ date_format = DEFAULT_DATE_FORMAT
    /\ float_format = DEFAULT_FLOAT_FORMAT
    /\ formatted = <<>>
    /\ delimiter = COMMA
    /\ NormIdle
    /\ QuoteIdle
    /\ OtherIdle
    /\ MainIdle

SheetMaxCols ==
    /\ phase = "input"
    /\ max_cols' = sheet_max_cols(sheet)
    /\ phase' = "max_cols"
    /\ UNCHANGED <<sheet, csv, delimiter, normVars, quoteVars, cellVars, otherVars, mainVars>>

SheetToCsv ==
    /\ phase = "input"
    /\ csv' = sheet_to_csv_string(book, sheet, date_format, float_format, delimiter)
    /\ phase' = "csv"
    /\ UNCHANGED <<sheet, max_cols, delimiter, normVars, quoteVars, cellVars, otherVars, mainVars>>

NextSheet == SheetMaxCols \/ SheetToCsv

SpecSheet == InitSheet /\ [][NextSheet]_vars

-----------------------------------------------------------------------------
(* Two sheets through the reference path of main(), lines 219-221 and 230: *)
(* sheet_to_csv_string, then normalize_csv, both with ",".                 *)

CmpCells ==
    {EmptyCell, TextCell(<<"a">>), TextCell(<<COMMA>>), TextCell(<<CR>>), TextCell(<<LF>>)}

InitCompare ==
    /\ phase = "input"
    /\ IsSheet(sheet, CmpCells, MaxCmpRows, MaxCmpCols)
    /\ IsSheet(other, CmpCells, MaxCmpRows, MaxCmpCols)
    /\ max_cols = 0
    /\ csv = <<>>
    /\ other_normalized = <<>>
    /\ book = DefaultBook
    /\ cell = EmptyCell
    /\ date_format = DEFAULT_DATE_FORMAT
    /\ float_format = DEFAULT_FLOAT_FORMAT
    /\ formatted = <<>>
    /\ delimiter = COMMA
    /\ NormIdle
    /\ QuoteIdle
    /\ MainIdle

Canonicalize ==
    /\ phase = "input"
    /\ normalized' = normalize_csv(
            sheet_to_csv_string(book, sheet, date_format, float_format, delimiter), delimiter)
    /\ other_normalized' = normalize_csv(
            sheet_to_csv_string(book, other, date_format, float_format, delimiter), delimiter)
    /\ phase' = "canonical"
    /\ UNCHANGED <<text, renormalized, delimiter, quoteVars, cellVars, sheetVars, other, mainVars>>

NextCompare == Canonicalize

SpecCompare == InitCompare /\ [][NextCompare]_vars

-----------------------------------------------------------------------------
(* collect_xls_files, lines 154-164.  A path is a string; the file system  *)
(* holds one directory, "d", and the files named below.                    *)

Dirs == {"d"}
Walk(dir) == IF dir = "d" THEN {"d/b.xls", "d/n.txt"} ELSE {}

\* name.lower().endswith(".xls")
LowerEndsWithXls(name) == name \in {"A.XLS", "a.xls", "d/b.xls"}

\* the order sorted() gives the paths
PathRank(path) ==
    CASE path = "A.XLS" -> 1
      [] path = "a.xls" -> 2
      [] path = "c.txt" -> 3
      [] path = "d/b.xls" -> 4
      [] path = "d/n.txt" -> 5
      [] OTHER -> 6

RECURSIVE Sorted(_)
Sorted(S) ==
    IF S = {} THEN <<>>
    ELSE LET first == CHOOSE x \in S : \A y \in S : PathRank(x) <= PathRank(y)
         IN  <<first>> \o Sorted(S \ {first})

collect_xls_files(paths) ==
    LET found(path) ==
            IF path \in Dirs THEN {name \in Walk(path) : LowerEndsWithXls(name)}
            ELSE IF LowerEndsWithXls(path) THEN {path}
            ELSE {}
    IN  Sorted(UNION {found(paths[i]) : i \in 1..Len(paths)})

-----------------------------------------------------------------------------
(* main(), lines 206-239, and the process around it, line 243.             *)
(* What a workbook holds and what the external tool prints are read when   *)
(* main() asks for them: the number of sheets at open_workbook, a sheet    *)
(* and the tool's output at each turn of the inner loop.                   *)

ArgPaths == {"A.XLS", "a.xls", "c.txt", "d"}

MainSheets ==
    { [nrows |-> 0, ncols |-> 0, rows |-> <<>>],
      [nrows |-> 1, ncols |-> 1, rows |-> <<<<TextCell(<<"a">>)>>>>],
      [nrows |-> 2, ncols |-> 1, rows |-> <<<<TextCell(<<"a">>)>>, <<EmptyCell>>>>],
      [nrows |-> 1, ncols |-> 1, rows |-> <<<<TextCell(<<"b">>)>>>>] }

\* what xls2csv may print for a sheet
ToolOutputs ==
    { <<>>, <<"a", LF>>, <<"a", CR, LF, COMMA, CR, LF>>, <<"b", LF>> }

Event(ev, path, sheet_id, equal) ==
    [ev |-> ev, path |-> path, sheet |-> sheet_id, equal |-> equal]

InitMain ==
    /\ args \in SeqsUpTo(ArgPaths, MaxArgs)
    /\ xls_paths = <<>>
    /\ pc = "collect"
    /\ ok = TRUE
    /\ path_i = 0
    /\ nsheets = 0
    /\ idx = 0
    /\ raised = "none"
    /\ exit_code = -1
    /\ log = <<>>
    /\ phase = "main"
    /\ delimiter = COMMA
    /\ book = DefaultBook
    /\ cell = EmptyCell
    /\ date_format = DEFAULT_DATE_FORMAT
    /\ float_format = DEFAULT_FLOAT_FORMAT
    /\ formatted = <<>>
    /\ NormIdle
    /\ QuoteIdle
    /\ SheetIdle
    /\ OtherIdle

harnessVars == <<phase, delimiter, normVars, quoteVars, cellVars, sheetVars, otherVars>>

\* lines 206-211: no file found prints and returns 2, which sys.exit passes on
Collect ==
    /\ pc = "collect"
    /\ xls_paths' = collect_xls_files(args)
    /\ IF xls_paths' = <<>>
       THEN /\ log' = Append(log, Event("print no xls files found", "", 0, FALSE))
            /\ exit_code' = 2
            /\ pc' = "exit"
            /\ UNCHANGED <<ok, path_i>>
       ELSE /\ ok' = TRUE
            /\ path_i' = 0
            /\ pc' = "for path"
            /\ UNCHANGED <<log, exit_code>>
    /\ UNCHANGED <<args, nsheets, idx, raised, harnessVars>>

\* lines 212-218: the next path is opened and its sheets are listed
OpenWorkbook ==
    /\ pc = "for path"
    /\ path_i < Len(xls_paths)
    /\ \E n \in 0..MaxSheets : nsheets' = n
    /\ idx' = 0
    /\ log' = Append(log, Event("open_workbook", xls_paths[path_i + 1], nsheets', FALSE))
    /\ pc' = "for sheet"
    /\ UNCHANGED <<args, xls_paths, ok, path_i, raised, exit_code, harnessVars>>

\* lines 213-217: xlrd cannot read the file; nothing catches the exception
\* and the interpreter ends with status 1
OpenWorkbookRaises ==
    /\ pc = "for path"
    /\ path_i < Len(xls_paths)
    /\ log' = Append(log, Event("open_workbook raises", xls_paths[path_i + 1], 0, FALSE))
    /\ raised' = "open_workbook"
    /\ exit_code' = 1
    /\ pc' = "exit"
    /\ UNCHANGED <<args, xls_paths, ok, path_i, nsheets, idx, harnessVars>>

\* line 212: the outer loop has no path left
PathsDone ==
    /\ pc = "for path"
    /\ path_i >= Len(xls_paths)
    /\ pc' = "return"
    /\ UNCHANGED <<args, xls_paths, ok, path_i, nsheets, idx, raised, exit_code, log, harnessVars>>

\* lines 167-177
compare_strings(expected, actual) == expected = actual

\* lines 218-235: one turn of the inner loop in which xls2csv succeeds
CompareSheet ==
    /\ pc = "for sheet"
    /\ idx < nsheets
    /\ \E sh \in MainSheets, out \in ToolOutputs :
        LET path == xls_paths[path_i + 1]
            expected == normalize_csv(
                sheet_to_csv_string(book, sh, date_format, float_format, COMMA), COMMA)
            actual == normalize_csv(out, COMMA)
            equal == compare_strings(expected, actual)
            calls == <<Event("sheet_to_csv_string", path, idx + 1, FALSE),
                       Event("run_xls2csv_output", path, idx + 1, FALSE),
                       Event("compare_strings", path, idx + 1, equal)>>
        IN  IF equal
            THEN /\ log' = log \o calls
                 /\ idx' = idx + 1
                 /\ pc' = "for sheet"
                 /\ ok' = ok
            ELSE /\ log' = log \o calls \o <<Event("print diff", path, idx + 1, FALSE)>>
                 /\ ok' = FALSE
                 /\ idx' = idx
                 /\ pc' = "if not ok"
    /\ UNCHANGED <<args, xls_paths, path_i, nsheets, raised, exit_code, harnessVars>>

\* lines 219-229 and 151: subprocess.check_output raises (the tool cannot be
\* launched, or exits nonzero); nothing catches the exception, main() never
\* returns and the interpreter ends with status 1
RunXls2csvRaises ==
    /\ pc = "for sheet"
    /\ idx < nsheets
    /\ LET path == xls_paths[path_i + 1]
       IN  log' = log \o <<Event("sheet_to_csv_string", path, idx + 1, FALSE),
                           Event("run_xls2csv_output raises", path, idx + 1, FALSE)>>
    /\ raised' = "run_xls2csv_output"
    /\ exit_code' = 1
    /\ pc' = "exit"
    /\ UNCHANGED <<args, xls_paths, ok, path_i, nsheets, idx, harnessVars>>

\* line 218: the inner loop has no sheet left
SheetsDone ==
    /\ pc = "for sheet"
    /\ idx >= nsheets
    /\ pc' = "if not ok"
    /\ UNCHANGED <<args, xls_paths, ok, path_i, nsheets, idx, raised, exit_code, log, harnessVars>>

\* the outer loop goes on after a mismatch
AfterSheetsNoBreak ==
    /\ pc = "if not ok"
    /\ path_i' = path_i + 1
    /\ pc' = "for path"
    /\ UNCHANGED <<args, xls_paths, ok, nsheets, idx, raised, exit_code, log, harnessVars>>

\* lines 236-237: if not ok: break
AfterSheets ==
    /\ pc = "if not ok"
    /\ IF ~ok
       THEN pc' = "return" /\ path_i' = path_i
       ELSE pc' = "for path" /\ path_i' = path_i + 1
    /\ UNCHANGED <<args, xls_paths, ok, nsheets, idx, raised, exit_code, log, harnessVars>>

\* returns 0 whatever ok is
ReturnZero ==
    /\ pc = "return"
    /\ exit_code' = 0
    /\ pc' = "exit"
    /\ UNCHANGED <<args, xls_paths, ok, path_i, nsheets, idx, raised, log, harnessVars>>

\* lines 239 and 243: sys.exit(0 if ok else 1)
Return ==
    /\ pc = "return"
    /\ exit_code' = (IF ok THEN 0 ELSE 1)
    /\ pc' = "exit"
    /\ UNCHANGED <<args, xls_paths, ok, path_i, nsheets, idx, raised, log, harnessVars>>

Next ==
    \/ Collect
    \/ OpenWorkbook
    \/ OpenWorkbookRaises
    \/ PathsDone
    \/ CompareSheet
    \/ RunXls2csvRaises
    \/ SheetsDone
    \/ AfterSheets
    \/ Return

Init == InitMain

Spec == Init /\ [][Next]_vars

-----------------------------------------------------------------------------
(* Harness for format_cell: one cell of a one-cell sheet *)

InitCell ==
    /\ phase = "input"
    /\ book \in HarnessBooks
    /\ cell \in HarnessCells
    /\ (cell.ctype # XL_CELL_NUMBER => book.format_map = {} /\ book.xf_list[1].format_key = 0)
    /\ date_format \in DateFormats
    /\ float_format \in FloatFormats
    /\ formatted = <<>>
    /\ delimiter = COMMA
    /\ NormIdle
    /\ QuoteIdle
    /\ SheetIdle
    /\ OtherIdle
    /\ MainIdle

FormatCell ==
    /\ phase = "input"
    /\ formatted' = format_cell(book, OneCellSheet(cell), 0, 0, date_format, float_format)
    /\ phase' = "formatted"
    /\ UNCHANGED <<book, cell, date_format, float_format, delimiter, normVars, quoteVars, sheetVars, otherVars, mainVars>>

NextCell == FormatCell

SpecCell == InitCell /\ [][NextCell]_vars

-----------------------------------------------------------------------------
(* Harness for normalize_csv: the text and the delimiter are the inputs *)

Texts == SeqsUpTo(Chars, MaxTextLen)

InitNormalize ==
    /\ phase = "input"
    /\ text \in Texts
    /\ delimiter \in Delimiters
    /\ normalized = <<>>
    /\ renormalized = <<>>
    /\ QuoteIdle
    /\ CellIdle
    /\ SheetIdle
    /\ OtherIdle
    /\ MainIdle

Normalize ==
    /\ phase = "input"
    /\ normalized' = normalize_csv(text, delimiter)
    /\ phase' = "normalized"
    /\ UNCHANGED <<text, delimiter, renormalized, quoteVars, cellVars, sheetVars, otherVars, mainVars>>

Renormalize ==
    /\ phase = "normalized"
    /\ renormalized' = normalize_csv(normalized, delimiter)
    /\ phase' = "renormalized"
    /\ UNCHANGED <<text, delimiter, normalized, quoteVars, cellVars, sheetVars, otherVars, mainVars>>

NextNormalize == Normalize \/ Renormalize

SpecNormalize == InitNormalize /\ [][NextNormalize]_vars

-----------------------------------------------------------------------------
(* Harness for quote_field *)

FieldValues == SeqsUpTo(Chars, MaxFieldLen) \cup {None}

InitQuote ==
    /\ phase = "input"
    /\ value \in FieldValues
    /\ delimiter \in Delimiters
    /\ quoted = <<>>
    /\ NormIdle
    /\ CellIdle
    /\ SheetIdle
    /\ OtherIdle
    /\ MainIdle

QuoteField ==
    /\ phase = "input"
    /\ quoted' = quote_field(value, delimiter)
    /\ phase' = "quoted"
    /\ UNCHANGED <<value, delimiter, normVars, cellVars, sheetVars, otherVars, mainVars>>

NextQuote == QuoteField

SpecQuote == InitQuote /\ [][NextQuote]_vars

-----------------------------------------------------------------------------
(* C4: normalize_csv is idempotent: normalising a normalised text again,   *)
(* with the same delimiter, returns it unchanged.                          *)
C4_NormalizeIdempotent ==
    phase = "renormalized" => renormalized = normalized

\* a text with mixed line endings, an interior blank line and trailing
\* delimiter-only lines, normalised twice
C4_Witness ==
    /\ phase = "renormalized"
    /\ text = <<"a", CR, LF, COMMA, CR>>
    /\ delimiter = COMMA
    /\ normalized = <<"a", LF>>

\* the last row of a text that ends with a newline: what lies between the
\* newline before it (or the start) and the final newline
LastRow(s) ==
    LET body == SubSeq(s, 1, Len(s) - 1)
        starts == {0} \cup {i \in 1..Len(body) : body[i] = LF}
        from == CHOOSE i \in starts : \A j \in starts : j <= i
    IN  SubSeq(body, from + 1, Len(body))

CanonicalCsvText(s, delim) ==
    /\ ~Contains(s, CR)
    /\ s # <<>> =>
        /\ s[Len(s)] = LF
        /\ Len(s) >= 2 /\ s[Len(s) - 1] # LF
        /\ \E i \in 1..Len(LastRow(s)) : LastRow(s)[i] \notin {delim, QUOTE}

(* C5: every result of normalize_csv is canonical CSV text: it holds no    *)
(* "\r"; unless it is the empty string it ends with exactly one "\n" (the  *)
(* character before it is no "\n") and its last row is not blank; and when *)
(* every line of the input is empty or blank (every character of the input *)
(* is a line ending, the delimiter or a quote) the result is the empty     *)
(* string.                                                                 *)
C5_NormalizedIsCanonical ==
    phase # "input" =>
        /\ CanonicalCsvText(normalized, delimiter)
        /\ (\A i \in 1..Len(text) : text[i] \in {CR, LF, delimiter, QUOTE}) => normalized = <<>>

\* the spec's example "a,b\n,,\n\n" shortened to "a\n,,\n\n", with a "\r"
C5_Witness ==
    /\ phase = "normalized"
    /\ text = <<"a", CR, COMMA, COMMA, LF, LF>>
    /\ delimiter = COMMA
    /\ normalized = <<"a", LF>>

QuotesBefore(s, i) == Cardinality({j \in 1..(i - 1) : s[j] = QUOTE})

(* C8: quote_field wraps a value in quote characters, each quote character *)
(* of the value doubled, exactly when the value holds the delimiter, a     *)
(* quote character, "\n" or "\r"; any other value, the empty string and    *)
(* None (as the empty string) included, is returned as it is.              *)
C8_QuoteField ==
    phase = "quoted" =>
        LET s == IF value = None THEN <<>> ELSE value
            needs == \E i \in 1..Len(s) : s[i] \in {delimiter, QUOTE, LF, CR}
            n == Len(s) + QuotesBefore(s, Len(s) + 1)
        IN  IF needs
            THEN /\ Len(quoted) = n + 2
                 /\ quoted[1] = QUOTE
                 /\ quoted[n + 2] = QUOTE
                 /\ \A i \in 1..Len(s) :
                        LET p == 1 + i + QuotesBefore(s, i)
                        IN  /\ quoted[p] = s[i]
                            /\ s[i] = QUOTE => quoted[p + 1] = QUOTE
            ELSE quoted = s

\* a value with a quote character and a newline, quoted and doubled
C8_Witness ==
    /\ phase = "quoted"
    /\ value = <<"a", QUOTE, LF>>
    /\ quoted = <<QUOTE, "a", QUOTE, QUOTE, LF, QUOTE>>

(* C9: a Number cell whose style resolves to a built-in date format key is *)
(* classified as a date whatever the format table holds for the key (a     *)
(* date-like string, a non-date string, an empty string, no entry) and is  *)
(* rendered by format_date, not by format_float; a Number cell whose key   *)
(* is outside the set and has no or an empty format string is not a date   *)
(* and is rendered by format_float.                                        *)
C9_BuiltinDateKeys ==
    (phase = "formatted" /\ cell.ctype = XL_CELL_NUMBER
        /\ cell.xf_index >= 0 /\ cell.xf_index < Len(book.xf_list)) =>
        LET k == book.xf_list[cell.xf_index + 1].format_key
            asDate == format_date(cell.num, book.datemode, date_format)
            asFloat == format_float(cell.num, float_format)
        IN  /\ k \in BUILTIN_DATE_FORMATS =>
                /\ is_date_cell(book, cell.xf_index)
                /\ formatted = asDate
                /\ formatted # asFloat
            /\ (k \notin BUILTIN_DATE_FORMATS
                    /\ \A p \in book.format_map : p[1] = k => p[2] = <<>>) =>
                /\ ~is_date_cell(book, cell.xf_index)
                /\ formatted = asFloat

\* the spec's example: Number(41000) with format key 14, here with a
\* non-date format string in the table, rendered as a calendar date
C9_Witness ==
    /\ phase = "formatted"
    /\ cell = Cell(XL_CELL_NUMBER, <<>>, 41000, 0)
    /\ book = [datemode |-> 0, xf_list |-> <<[format_key |-> 14]>>,
               format_map |-> {<<14, <<"0">>>>}]
    /\ date_format = <<"%", "Y", "-", "%", "m", "-", "%", "d">>
    /\ formatted = <<"2", "0", "1", "2", "-", "0", "4", "-", "0", "1">>

\* the content cells of row r (1-based), as 0-based column indexes
ContentCols(sh, r) ==
    {c - 1 : c \in {k \in 1..Len(sh.rows[r]) : sh.rows[r][k].ctype \notin {XL_CELL_EMPTY, XL_CELL_BLANK}}}

Max(S) == CHOOSE n \in S : \A k \in S : k <= n

\* the effective column count as the specification words it
EffectiveCols(sh) ==
    LET widths == {Max(ContentCols(sh, r)) + 1 : r \in {q \in 1..sh.nrows : ContentCols(sh, q) # {}}}
    IN  IF widths = {} THEN sh.ncols ELSE Max(widths)

(* C6: sheet_max_cols returns the maximum over the rows of (index of the   *)
(* row's last cell that is neither Empty nor Blank) + 1, and the sheet's   *)
(* declared column count when no row has such a cell.                      *)
C6_SheetMaxCols ==
    phase = "max_cols" => max_cols = EffectiveCols(sheet)

\* the widest row is not the last one, and its last cells are Blank and Empty
C6_Witness ==
    /\ phase = "max_cols"
    /\ sheet.nrows = 2
    /\ sheet.rows[1] = <<BlankCell, TextCell(<<"a">>)>>
    /\ sheet.rows[2] = <<TextCell(<<"a">>), EmptyCell>>
    /\ max_cols = 2

\* a sheet of blank cells only: the declared width, here 2 for a row of 1
C6_WitnessDeclared ==
    /\ phase = "max_cols"
    /\ sheet.nrows = 1
    /\ sheet.rows[1] = <<BlankCell>>
    /\ sheet.ncols = 2
    /\ max_cols = 2

\* A reader of CSV text: the records of s, each the sequence of its fields
\* with the quoting undone.  A record ends at a newline outside quotes; text
\* after the last such newline makes one more record.
RECURSIVE ReadCsv(_, _, _, _, _, _)
ReadCsv(s, delim, inQuote, field, fields, records) ==
    IF s = <<>>
    THEN (IF field # <<>> \/ fields # <<>> \/ inQuote
          THEN Append(records, Append(fields, field)) ELSE records)
    ELSE IF inQuote
    THEN (IF s[1] = QUOTE /\ Len(s) >= 2 /\ s[2] = QUOTE
          THEN ReadCsv(SubSeq(s, 3, Len(s)), delim, TRUE, Append(field, QUOTE), fields, records)
          ELSE IF s[1] = QUOTE
          THEN ReadCsv(Tail(s), delim, FALSE, field, fields, records)
          ELSE ReadCsv(Tail(s), delim, TRUE, Append(field, s[1]), fields, records))
    ELSE IF s[1] = QUOTE THEN ReadCsv(Tail(s), delim, TRUE, field, fields, records)
    ELSE IF s[1] = delim THEN ReadCsv(Tail(s), delim, FALSE, <<>>, Append(fields, field), records)
    ELSE IF s[1] = LF
    THEN ReadCsv(Tail(s), delim, FALSE, <<>>, <<>>, Append(records, Append(fields, field)))
    ELSE ReadCsv(Tail(s), delim, FALSE, Append(field, s[1]), fields, records)

CsvRecords(s, delim) == ReadCsv(s, delim, FALSE, <<>>, <<>>, <<>>)

\* the text of the cell at row r, column c (1-based), empty beyond the row
FieldText(bk, sh, r, c, datefmt, floatfmt) ==
    IF c > Len(sh.rows[r]) THEN <<>>
    ELSE format_cell(bk, sh, r - 1, c - 1, datefmt, floatfmt)

(* C7: the text sheet_to_csv_string returns reads back as one record per   *)
(* sheet row, in row order, each newline-terminated, each with exactly     *)
(* effective-column-count fields whatever the row's declared length: the   *)
(* field of a column at or beyond the row's length is empty, the others    *)
(* are the formatted cells.  (With an effective column count of 0 a record *)
(* has no field and is an empty line.)                                     *)
C7_UniformRecords ==
    phase = "csv" =>
        LET n == EffectiveCols(sheet)
            records == CsvRecords(csv, delimiter)
        IN  /\ Len(records) = sheet.nrows
            /\ csv # <<>> => csv[Len(csv)] = LF
            /\ \A r \in 1..sheet.nrows :
                IF n = 0 THEN records[r] = <<<<>>>>
                ELSE /\ Len(records[r]) = n
                     /\ \A c \in 1..n :
                            records[r][c] =
                                FieldText(book, sheet, r, c, date_format, float_format)

\* a row shorter than the effective column count is padded, a row longer
\* than it is cut
C7_Witness ==
    /\ phase = "csv"
    /\ sheet.nrows = 2
    /\ sheet.rows[1] = <<>>
    /\ sheet.rows[2] = <<TextCell(<<COMMA, QUOTE, LF>>), BlankCell>>
    /\ csv = <<LF, QUOTE, COMMA, QUOTE, QUOTE, LF, QUOTE, LF>>

\* the formatted fields of the rows of sh up to its last row that holds a
\* non-empty field, each row at the effective column count
ContentRows(bk, sh, datefmt, floatfmt) ==
    LET n == EffectiveCols(sh)
        fields(r) == [c \in 1..n |-> FieldText(bk, sh, r, c, datefmt, floatfmt)]
        holding == {r \in 1..sh.nrows : \E c \in 1..n : fields(r)[c] # <<>>}
        last == IF holding = {} THEN 0 ELSE Max(holding)
    IN  [r \in 1..last |-> fields(r)]

(* C10: if two sheets normalise to the same text then they have the same   *)
(* formatted field values in every row up to the last row that holds a     *)
(* non-empty field: normalisation discards only trailing rows whose fields *)
(* are all empty.                                                          *)
C10_EqualTextEqualFields ==
    (phase = "canonical" /\ normalized = other_normalized) =>
        ContentRows(book, sheet, date_format, float_format)
            = ContentRows(book, other, date_format, float_format)

IsMismatch(e) == e.ev = "compare_strings" /\ ~e.equal

\* the 1-based position of a path in xls_paths
PathPos(path) == CHOOSE k \in 1..Len(xls_paths) : xls_paths[k] = path

(* C1: sheets are compared in file order, then sheet order, and the first  *)
(* mismatch marks the run failed and ends it: after the mismatch's diff    *)
(* no workbook is opened and no sheet is converted, handed to the external *)
(* tool or compared, and the process exits with status 1.                  *)
C1_FailFast ==
    /\ \A i \in 1..Len(log) :
        IsMismatch(log[i]) =>
            /\ ~ok
            /\ Len(log) = i + 1
            /\ log[i + 1] = Event("print diff", log[i].path, log[i].sheet, FALSE)
            /\ pc \in {"if not ok", "return", "exit"}
            /\ pc = "exit" => exit_code = 1
    /\ \A i, j \in 1..Len(log) :
        (i < j /\ log[i].ev = "compare_strings" /\ log[j].ev = "compare_strings") =>
            \/ PathPos(log[i].path) < PathPos(log[j].path)
            \/ PathPos(log[i].path) = PathPos(log[j].path) /\ log[i].sheet < log[j].sheet

\* two files found, the first with two sheets: its first sheet mismatches
\* and the run ends with the second sheet and the second file untouched
C1_Witness ==
    /\ pc = "exit"
    /\ exit_code = 1
    /\ xls_paths = <<"A.XLS", "a.xls">>
    /\ Len(log) = 5
    /\ log[1] = Event("open_workbook", "A.XLS", 2, FALSE)
    /\ IsMismatch(log[4])
    /\ log[4].sheet = 1

\* the .xls files the arguments name, directly or inside a directory
Discovered ==
    {f \in {"A.XLS", "a.xls", "c.txt", "d/b.xls", "d/n.txt"} :
        /\ LowerEndsWithXls(f)
        /\ \E i \in 1..Len(args) : args[i] = f \/ (args[i] \in Dirs /\ f \in Walk(args[i]))}

\* every sheet of file f was compared and matched
AllSheetsMatched(f) ==
    \E i \in 1..Len(log) :
        /\ log[i].ev = "open_workbook"
        /\ log[i].path = f
        /\ \A sheet_id \in 1..log[i].sheet :
            \E j \in 1..Len(log) : log[j] = Event("compare_strings", f, sheet_id, TRUE)

(* C2: when main() returns, the exit status is 2 exactly when no .xls file *)
(* was discovered (and then no workbook was opened and the external tool   *)
(* never ran), 0 exactly when a file was discovered and every sheet of     *)
(* every discovered file matched, and 1 exactly when a compared sheet      *)
(* mismatched.                                                             *)
C2_ExitStatus ==
    (pc = "exit" /\ raised = "none") =>
        /\ exit_code \in {0, 1, 2}
        /\ exit_code = 2 <=> Discovered = {}
        /\ Discovered = {} =>
            \A i \in 1..Len(log) : log[i].ev = "print no xls files found"
        /\ exit_code = 0 <=> (Discovered # {} /\ \A f \in Discovered : AllSheetsMatched(f))
        /\ exit_code = 1 <=> \E i \in 1..Len(log) : IsMismatch(log[i])

\* a file found in a directory, its two sheets both matching: status 0
C2_Witness ==
    /\ pc = "exit"
    /\ raised = "none"
    /\ args = <<"c.txt", "d">>
    /\ xls_paths = <<"d/b.xls">>
    /\ exit_code = 0
    /\ Len(log) = 7

\* no file found: status 2 and nothing opened
C2_WitnessNoFiles ==
    /\ pc = "exit"
    /\ args = <<"c.txt">>
    /\ exit_code = 2
    /\ Len(log) = 1

(* C3: when the external converter fails for a sheet the run aborts at     *)
(* once: no comparison is made and no diff is printed for that sheet,      *)
(* nothing later is processed, and the process ends with an exit status    *)
(* that is neither 1 (content mismatch) nor 0 (all matched).               *)
C3_ToolFailureDistinctStatus ==
    raised = "run_xls2csv_output" =>
        /\ pc = "exit"
        /\ log[Len(log)].ev = "run_xls2csv_output raises"
        /\ \A i \in 1..Len(log) :
            (log[i].path = log[Len(log)].path /\ log[i].sheet = log[Len(log)].sheet) =>
                log[i].ev \notin {"compare_strings", "print diff"}
        /\ exit_code \notin {0, 1}

\* what does hold of a failing converter: the run aborts at once, without
\* comparison or diff for the sheet, and the status is not 0
C3_AbortsAtOnce ==
    raised = "run_xls2csv_output" =>
        /\ pc = "exit"
        /\ log[Len(log)].ev = "run_xls2csv_output raises"
        /\ \A i \in 1..Len(log) :
            (log[i].path = log[Len(log)].path /\ log[i].sheet = log[Len(log)].sheet) =>
                log[i].ev \notin {"compare_strings", "print diff"}
        /\ exit_code = 1

====
